---- MODULE Spec2Model ----
(***************************************************************************)
(* Model of bevy_replicon's marker-driven command dispatch                 *)
(* (src/core/command_markers.rs) and of its client-event pipeline          *)
(* (src/network_event/client_event.rs).                                    *)
(*                                                                         *)
(* Indices are 0-based as in the Rust code; the element a 0-based index i  *)
(* addresses is s[i + 1] of the TLA+ sequence s.                           *)
(***************************************************************************)
EXTENDS Integers, Sequences, FiniteSets, TLC

VARIABLES
    command_markers,  \* CommandMarkers.0 : Vec<CommandMarker>
    insert_order,     \* history: insert_order[i] is the ordinal of the insert call that made command_markers[i]
    replication_fns,  \* ReplicationFns: per component, default pair and marker slots
    overrides,        \* history: the pair installed for (ordinal of the addressed marker entry, component)
    entity_markers,   \* EntityMarkers { markers, need_history }
    inserted,         \* history: the markers passed to CommandMarkers::insert, in call order
    last_tick,        \* per component of the replicated entity: tick of the newest applied update
    panicked,         \* TRUE once a registration call has panicked
    event_registry,   \* ClientEventRegistry.events : Vec<NetworkEventFns>
    channels,         \* RepliconChannels: number of client channels created
    events,           \* Events<T> per event type: the local outgoing queue
    client_events,    \* Events<FromClient<T>> per event type: the received envelopes
    client_status,    \* RepliconClient status
    sent_messages,    \* RepliconClient: messages handed to the transport, not yet taken by it
    server_running,   \* RepliconServer is running
    received_messages,\* RepliconServer: pending inbound messages per channel
    last_connected,   \* whether the client was not disconnected when Reset last looked
    delivered,        \* history: number of inbound messages the transport has delivered
    dropped,          \* history: per event type, the event count when the client last became disconnected with events queued (see recalled)
    handed,           \* history: per event type, the event count when send last ran (see retained)
    done,             \* history: the systems of the current frame whose turn is over
    pc,               \* "setup" while the app is built, then the system of the frame that runs next
    last              \* the operation that ran last, with its inputs and outputs

marker_tables == <<command_markers, insert_order, replication_fns, overrides,
                   inserted, entity_markers, last_tick>>

marker_vars == <<marker_tables, panicked>>

event_vars == <<event_registry, channels, events, client_events, client_status,
                sent_messages, server_running, received_messages, last_connected,
                delivered, dropped, handed, done, pc>>

vars == <<marker_vars, event_vars, last>>

(***************************************************************************)
(* Bounds and input domains                                                *)
(***************************************************************************)
MaxMarkers == 2
MaxPriority == 1
MaxTick == 2
MaxEntries == 2                  \* registered client events
MaxInputs == 2                   \* events the application raises and messages the transport delivers, in total
MaxWord == 6                     \* entity indices and generations the codec is tried on: multiples of 0x01010101 up to this factor

MarkerIds == {"A", "B"}          \* ComponentId of the marker types M
Components == {"X"}              \* replicated component types C
Priorities == 0..MaxPriority
Ticks == 1..MaxTick
EventTypes == {"E1", "E2"}        \* event types T; each wraps one Entity
LocalEntities == {1, 2}          \* indices of client entities an event may name
ClientIds == {"client1", "client2"}
SERVER == "SERVER"               \* ClientId::SERVER
None == <<"none">>               \* Option::None of a write/remove pair
NoIndex == 0 - 1                 \* no index (the search found nothing)
default_fns == <<"default">>     \* the pair default_write / default_remove

\* The pair a caller passes to set_marker_fns::<M, C>: each (M, C) has its own.
MarkerFns(m, c) == <<"marker", m, c>>
\* The pair a caller passes to set_command_fns::<C>.
CommandFns(c) == <<"command", c>>

(***************************************************************************)
(* CommandMarkers                                                          *)
(***************************************************************************)
InsertAt(s, index, x) == SubSeq(s, 1, index) \o <<x>> \o SubSeq(s, index + 1, Len(s))

\* Variant: Vec::push, no position search.
binary_search_push(markers, priority) == {Len(markers)}

\* Variant: the key compared without Reverse (ascending order).
binary_search_ascending(markers, priority) ==
    LET matches == {i \in 0..(Len(markers) - 1) : markers[i + 1].priority = priority}
    IN  IF matches # {}
        THEN matches
        ELSE {Cardinality({i \in 1..Len(markers) : markers[i].priority < priority})}

\* slice::binary_search_by_key(&Reverse(priority), |m| Reverse(m.config.priority))
\* followed by unwrap_or_else(|index| index): Ok(i) for an entry of equal priority
\* ("if there are multiple matches, then any one of the matches could be
\* returned"), otherwise Err(i) for the insertion point. The set of indices
\* the call may yield.
binary_search_by_key(markers, priority) ==
    LET matches == {i \in 0..(Len(markers) - 1) : markers[i + 1].priority = priority}
    IN  IF matches # {}
        THEN matches
        ELSE {Cardinality({i \in 1..Len(markers) : markers[i].priority > priority})}

\* Variant: unwrap_or_default() instead of the panic.
marker_id_or_first(markers, component_id) ==
    LET found == {i \in 0..(Len(markers) - 1) : markers[i + 1].component_id = component_id}
    IN  IF found = {} THEN (IF Len(markers) > 0 THEN 0 ELSE NoIndex)
        ELSE CHOOSE i \in found : \A j \in found : i <= j

\* Variant: the position counted from the back (iter().rev().position(..)).
marker_id_rev(markers, component_id) ==
    LET found == {i \in 0..(Len(markers) - 1) :
                     markers[Len(markers) - i].component_id = component_id}
    IN  IF found = {} THEN NoIndex
        ELSE CHOOSE i \in found : \A j \in found : i <= j

\* CommandMarkers::marker_id: position of the first entry with this component id,
\* NoIndex where the code panics.
marker_id(markers, component_id) ==
    LET found == {i \in 0..(Len(markers) - 1) : markers[i + 1].component_id = component_id}
    IN  IF found = {} THEN NoIndex
        ELSE CHOOSE i \in found : \A j \in found : i <= j

\* Variant: every slot reports whether any registered marker needs history.
iter_require_history_any(markers) ==
    [i \in 1..Len(markers) |-> \E j \in 1..Len(markers) : markers[j].need_history]

\* CommandMarkers::iter_require_history
iter_require_history(markers) == [i \in 1..Len(markers) |-> markers[i].need_history]

(***************************************************************************)
(* EntityMarkers                                                           *)
(***************************************************************************)
\* EntityMarkers::from_world
from_world == [markers |-> <<>>, need_history |-> FALSE]

\* Variant: the presence test dropped, every registered marker counts as present.
read_registered(markers, entity) ==
    [markers |-> [i \in 1..Len(markers) |-> TRUE],
     need_history |-> \E i \in 1..Len(markers) : markers[i].need_history]

\* Variant: a slot is pushed for the markers the entity carries only.
read_present_only(markers, entity) ==
    [markers |-> [i \in 1..Cardinality({j \in 1..Len(markers) :
                                            markers[j].component_id \in entity}) |-> TRUE],
     need_history |-> \E i \in 1..Len(markers) :
                         markers[i].component_id \in entity /\ markers[i].need_history]

\* Variant: need_history of a marker counts whether the entity carries it or not.
read_any_history(markers, entity) ==
    [markers |-> [i \in 1..Len(markers) |-> markers[i].component_id \in entity],
     need_history |-> \E i \in 1..Len(markers) : markers[i].need_history]

\* EntityMarkers::read; entity is the set of component ids the entity carries.
read(markers, entity) ==
    [markers |-> [i \in 1..Len(markers) |-> markers[i].component_id \in entity],
     need_history |-> \E i \in 1..Len(markers) :
                         markers[i].component_id \in entity /\ markers[i].need_history]

(***************************************************************************)
(* ReplicationFns (command function table)                                 *)
(***************************************************************************)
\* 0-based index of the first slot that is present on the entity and holds an
\* override, NoIndex if there is none.
resolve_index(command_fns, snapshot) ==
    LET n == IF Len(command_fns.markers) < Len(snapshot.markers)
             THEN Len(command_fns.markers) ELSE Len(snapshot.markers)
        hits == {i \in 0..(n - 1) : snapshot.markers[i + 1] /\ command_fns.markers[i + 1] # None}
    IN  IF hits = {} THEN NoIndex
        ELSE CHOOSE i \in hits : \A j \in hits : i <= j

\* resolve<C>: the pair used for a component on an entity with this snapshot.
resolve(command_fns, snapshot) ==
    LET index == resolve_index(command_fns, snapshot)
    IN  IF index # NoIndex THEN command_fns.markers[index + 1]
        ELSE IF command_fns.default # None THEN command_fns.default
        ELSE default_fns

\* ReplicationFns::register_marker: a free slot at marker_id for every component.
add_marker_slot(fns, index) ==
    [c \in Components |-> [fns[c] EXCEPT !.markers = InsertAt(@, index, None)]]

(***************************************************************************)
(* Initial state                                                           *)
(***************************************************************************)
Init ==
    /\ command_markers = <<>>
    /\ insert_order = <<>>
    /\ replication_fns = [c \in Components |-> [default |-> None, markers |-> <<>>]]
    /\ overrides = <<>>
    /\ entity_markers = from_world
    /\ inserted = <<>>
    /\ last_tick = [c \in Components |-> 0]
    /\ panicked = FALSE
    /\ event_registry = <<>>
    /\ channels = 0
    /\ events = [t \in EventTypes |-> [events_a |-> <<>>, events_b |-> <<>>, event_count |-> 0]]
    /\ client_events = [t \in EventTypes |-> <<>>]
    /\ client_status = "disconnected"
    /\ sent_messages = <<>>
    /\ server_running = FALSE
    /\ received_messages = <<>>
    /\ last_connected = FALSE
    /\ delivered = 0
    /\ dropped = [t \in EventTypes |-> 0]
    /\ handed = [t \in EventTypes |-> 0]
    /\ done = {}
    /\ pc = "setup"
    /\ last = [op |-> "init"]

(***************************************************************************)
(* Registration (AppMarkerExt for App)                                     *)
(***************************************************************************)
\* CommandMarkers::insert as called by App::register_marker_with, with the
\* slot registration that follows it.
register_marker_with(component_id, priority, need_history) ==
    /\ ~panicked
    /\ Len(command_markers) < MaxMarkers
    /\ LET marker == [component_id |-> component_id,
                      priority |-> priority,
                      need_history |-> need_history]
       IN  \E index \in binary_search_by_key(command_markers, priority) :
            /\ command_markers' = InsertAt(command_markers, index, marker)
            /\ insert_order' = InsertAt(insert_order, index, Len(insert_order) + 1)
            /\ inserted' = Append(inserted, marker)
            /\ replication_fns' = add_marker_slot(replication_fns, index)
            /\ overrides' = Append(overrides, [c \in Components |-> None])
            /\ last' = [op |-> "register_marker_with", index |-> index]
    /\ UNCHANGED <<entity_markers, last_tick, panicked, event_vars>>

\* App::register_marker: MarkerConfig::default()
register_marker(component_id) == register_marker_with(component_id, 0, FALSE)

\* App::set_marker_fns: looks the marker up by identity, panics if it was never
\* registered, otherwise installs the pair in the marker's slot for C.
set_marker_fns(m, c) ==
    /\ ~panicked
    /\ LET id == marker_id(command_markers, m)
       IN  IF id = NoIndex
           THEN /\ panicked' = TRUE
                /\ UNCHANGED <<replication_fns, overrides>>
           ELSE /\ replication_fns' =
                       [replication_fns EXCEPT ![c].markers[id + 1] = MarkerFns(m, c)]
                /\ overrides' =
                       [overrides EXCEPT ![insert_order[id + 1]][c] = MarkerFns(m, c)]
                /\ UNCHANGED panicked
    /\ last' = [op |-> "set_marker_fns", marker |-> m, component |-> c]
    /\ UNCHANGED <<command_markers, insert_order, inserted, entity_markers, last_tick,
                   event_vars>>

\* App::set_command_fns: installs the component's own default pair.
set_command_fns(c) ==
    /\ ~panicked
    /\ replication_fns' = [replication_fns EXCEPT ![c].default = CommandFns(c)]
    /\ last' = [op |-> "set_command_fns", component |-> c]
    /\ UNCHANGED <<command_markers, insert_order, inserted, overrides, entity_markers,
                   last_tick, panicked, event_vars>>

(***************************************************************************)
(* Replication pass                                                        *)
(***************************************************************************)
\* EntityMarkers::read on an entity carrying the marker components in entity.
Read(entity) ==
    /\ ~panicked
    /\ entity_markers' = read(command_markers, entity)
    /\ last' = [op |-> "read", entity |-> entity]
    /\ UNCHANGED <<command_markers, insert_order, inserted, replication_fns, overrides,
                   last_tick, panicked, event_vars>>

\* Whether an update older than the last applied one is still written: the
\* entity has a history marker and the marker resolved for the component is one.
tolerates_old(markers, command_fns, snapshot) ==
    LET index == resolve_index(command_fns, snapshot)
    IN  /\ snapshot.need_history
        /\ index # NoIndex
        /\ iter_require_history(markers)[index + 1]

\* One component update with send-tick tick for the replicated entity, which
\* carries the marker components in entity at that moment.
ApplyUpdate(entity, c, tick) ==
    /\ ~panicked
    /\ LET snapshot == read(command_markers, entity)
           write == resolve(replication_fns[c], snapshot)
           old == tick < last_tick[c]
           passed == ~old \/ tolerates_old(command_markers, replication_fns[c], snapshot)
       IN  /\ entity_markers' = snapshot
           /\ last_tick' = IF old THEN last_tick ELSE [last_tick EXCEPT ![c] = tick]
           /\ last' = [op |-> "update", entity |-> entity, component |-> c,
                       tick |-> tick, old |-> old, passed |-> passed, write |-> write]
    /\ UNCHANGED <<command_markers, insert_order, inserted, replication_fns, overrides,
                   panicked, event_vars>>

Registration ==
    \/ \E m \in MarkerIds, p \in Priorities, h \in BOOLEAN : register_marker_with(m, p, h)
    \/ \E m \in MarkerIds : register_marker(m)
    \/ \E m \in MarkerIds, c \in Components : set_marker_fns(m, c)
    \/ \E c \in Components : set_command_fns(c)

MarkersNext ==
    \/ Registration
    \/ \E entity \in SUBSET MarkerIds : Read(entity)

\* Registration and snapshot refreshes in any order.
SpecMarkers == Init /\ [][MarkersNext]_vars

\* Registration happens during setup; once updates are processed the marker
\* registry and the command function table are no longer mutated.
UpdatesNext ==
    \/ last.op # "update" /\ Registration
    \/ \E entity \in SUBSET MarkerIds, c \in Components, tick \in Ticks :
           ApplyUpdate(entity, c, tick)

SpecUpdates == Init /\ [][UpdatesNext]_vars

(***************************************************************************)
(* Client events: codec                                                    *)
(***************************************************************************)
Entity(index) == [index |-> index, generation |-> 1]

\* An event value whose Serialize implementation reports an error.
Unserializable == [unserializable |-> TRUE]

\* u32::to_le_bytes / u32::from_le_bytes
to_le_bytes(n) ==
    <<n % 256, (n \div 256) % 256, (n \div 65536) % 256, (n \div 16777216) % 256>>
from_le_bytes(b) == b[1] + 256 * b[2] + 65536 * b[3] + 16777216 * b[4]

\* default_serialize for an event wrapping an Entity: bincode's DefaultOptions
\* write the entity bits (generation << 32 | index, at least 2^32) as a varint,
\* that is the marker byte 253 and the eight bytes in little-endian order.
\* Variant: the generation is written before the index.
default_serialize_swapped(event) ==
    IF "index" \in DOMAIN event
    THEN [ok |-> TRUE,
          bytes |-> <<253>> \o to_le_bytes(event.generation) \o to_le_bytes(event.index)]
    ELSE [ok |-> FALSE]

\* A value whose Serialize implementation fails yields Err.
default_serialize(event) ==
    IF "index" \in DOMAIN event
    THEN [ok |-> TRUE,
          bytes |-> <<253>> \o to_le_bytes(event.index) \o to_le_bytes(event.generation)]
    ELSE [ok |-> FALSE]

\* default_deserialize: Err for a short buffer, trailing bytes, another marker
\* byte or bits that are no entity (generation 0).
default_deserialize(bytes) ==
    IF /\ Len(bytes) = 9
       /\ bytes[1] = 253
       /\ from_le_bytes(SubSeq(bytes, 6, 9)) >= 1
    THEN [ok |-> TRUE,
          event |-> [index |-> from_le_bytes(SubSeq(bytes, 2, 5)),
                     generation |-> from_le_bytes(SubSeq(bytes, 6, 9))]]
    ELSE [ok |-> FALSE]

\* ServerEntityMap::to_server: the server entity of each client entity.
to_server == [index \in LocalEntities |-> index + 10]

\* Variant: the entities are left as they are.
map_entities_unmapped(event) == event

\* MapEntities::map_entities with EventMapper(entity_map.to_server())
map_entities(event) ==
    IF "index" \in DOMAIN event THEN [event EXCEPT !.index = to_server[@]] ELSE event

\* What the transport may deliver: a well-formed event and a truncated buffer.
InboundBytes == {default_serialize(Entity(11)).bytes, <<253, 11>>}

(***************************************************************************)
(* Client events: the four operations of an entry                          *)
(***************************************************************************)
\* The state the operations work on.
World == [events |-> events, client_events |-> client_events,
          sent_messages |-> sent_messages, received_messages |-> received_messages,
          panicked |-> panicked]

\* Events::get_reader().read(): a fresh reader sees every stored event, the
\* older buffer first; nothing is removed.
read_events(queue) == queue.events_a \o queue.events_b

\* Events::len
events_len(queue) == Len(queue.events_a) + Len(queue.events_b)

\* Variant: the drain takes the newer buffer only.
drained_newest(queue) == [queue EXCEPT !.events_b = <<>>]

\* Events::drain leaves both buffers empty.
drained(queue) == [queue EXCEPT !.events_a = <<>>, !.events_b = <<>>]

\* for event in .. { serialize_fn(event).expect(..); client.send(channel_id, message) }:
\* the messages of the events before the first one that fails to serialize are
\* handed over, the failure panics.
send_each(w, channel_id, payloads) ==
    LET results == [i \in 1..Len(payloads) |-> default_serialize(payloads[i])]
        failed == {i \in 1..Len(payloads) : ~results[i].ok}
        n == IF failed = {} THEN Len(payloads)
             ELSE (CHOOSE i \in failed : \A j \in failed : i <= j) - 1
    IN  [w EXCEPT !.sent_messages = @ \o [i \in 1..n |-> <<channel_id, results[i].bytes>>],
                  !.panicked = failed # {}]

\* send::<T>
send(w, entry) ==
    LET unread == read_events(w.events[entry.type])
    IN  send_each(w, entry.channel_id, [i \in 1..Len(unread) |-> unread[i].event])

\* map_and_send::<T>: each event is cloned and the clone is mapped.
map_and_send(w, entry) ==
    LET unread == read_events(w.events[entry.type])
    IN  send_each(w, entry.channel_id,
                  [i \in 1..Len(unread) |-> map_entities(unread[i].event)])

\* Variant: the local events are copied, not drained.
resend_locally_keeping(w, type) ==
    LET queued == read_events(w.events[type])
    IN  [w EXCEPT !.client_events[type] = @ \o
                     [i \in 1..Len(queued) |-> [client_id |-> SERVER, event |-> queued[i].event]]]

\* resend_locally::<T>
resend_locally(w, type) ==
    IF events_len(w.events[type]) > 0
    THEN LET queued == read_events(w.events[type])
         IN  [w EXCEPT !.client_events[type] = @ \o
                          [i \in 1..Len(queued) |->
                              [client_id |-> SERVER, event |-> queued[i].event]],
                       !.events[type] = drained(@)]
    ELSE w

\* Variant: the first message that fails to deserialize ends the batch.
RECURSIVE filter_map_until_error(_)
filter_map_until_error(messages) ==
    IF messages = <<>> THEN <<>>
    ELSE LET message == Head(messages)
             result == default_deserialize(message[2])
         IN  IF result.ok
             THEN <<[client_id |-> message[1], event |-> result.event]>>
                      \o filter_map_until_error(Tail(messages))
             ELSE <<>>

\* Iterator::filter_map over the received messages: one envelope per message
\* that deserializes, in order.
RECURSIVE filter_map(_)
filter_map(messages) ==
    IF messages = <<>> THEN <<>>
    ELSE LET message == Head(messages)
             result == default_deserialize(message[2])
         IN  (IF result.ok
              THEN <<[client_id |-> message[1], event |-> result.event]>>
              ELSE <<>>) \o filter_map(Tail(messages))

\* Variant: every entry takes the messages of the first channel.
receive_first_channel(w, entry) ==
    [w EXCEPT !.client_events[entry.type] = @ \o filter_map(w.received_messages[1]),
              !.received_messages[1] = <<>>]

\* receive::<T>
receive(w, entry) ==
    [w EXCEPT !.client_events[entry.type] =
                  @ \o filter_map(w.received_messages[entry.channel_id + 1]),
              !.received_messages[entry.channel_id + 1] = <<>>]

\* Variant: only the older buffer is cleared.
reset_oldest(w, type) == [w EXCEPT !.events[type].events_a = <<>>]

\* Variant: only the newer buffer is cleared.
reset_newest(w, type) == [w EXCEPT !.events[type].events_b = <<>>]

\* reset::<T>
reset(w, type) == [w EXCEPT !.events[type] = drained(@)]

\* The call a system makes for one entry.
call(system, w, entry) ==
    CASE system = "send" ->
            IF entry.send = "send" THEN send(w, entry) ELSE map_and_send(w, entry)
      [] system = "resend_locally" -> resend_locally(w, entry.type)
      [] system = "receive" -> receive(w, entry)
      [] system = "reset" -> reset(w, entry.type)

\* for event in &registry.events { ... }, from the entry at index on; a panic
\* ends the system.
RECURSIVE for_each_event(_, _, _, _)
for_each_event(system, w, registry, index) ==
    IF index >= Len(registry) \/ w.panicked THEN w
    ELSE for_each_event(system, call(system, w, registry[index + 1]), registry, index + 1)

\* Number of events stored for the registered event types.
RECURSIVE queued_events(_, _)
queued_events(w, types) ==
    IF types = {} THEN 0
    ELSE LET t == CHOOSE t \in types : TRUE
         IN  events_len(w.events[t]) + queued_events(w, types \ {t})

\* Number of messages pending on the channels from index on.
RECURSIVE pending_messages(_, _)
pending_messages(w, index) ==
    IF index >= Len(w.received_messages) THEN 0
    ELSE Len(w.received_messages[index + 1]) + pending_messages(w, index + 1)

\* A mark of the history (an event count) is kept while an event raised before
\* it is still queued, and is 0 afterwards.
retained(marks, queues) ==
    [t \in EventTypes |->
        IF \E i \in 1..events_len(queues[t]) : read_events(queues[t])[i].event_id < marks[t]
        THEN marks[t] ELSE 0]

\* As retained, but it stays on record (as 1, the id after the first event)
\* that there was a mark.
recalled(marks, queues) ==
    [t \in EventTypes |->
        IF retained(marks, queues)[t] # 0 THEN marks[t]
        ELSE IF marks[t] > 0 THEN 1 ELSE 0]

Becomes(w) ==
    /\ events' = w.events
    /\ client_events' = w.client_events
    /\ sent_messages' = w.sent_messages
    /\ received_messages' = w.received_messages
    /\ panicked' = w.panicked

(***************************************************************************)
(* Client events: registration                                             *)
(***************************************************************************)
\* The part add_mapped_client_event and add_client_event_with share:
\* create_client_channel, add_event, push of the entry.
push_event(type, send_fn) ==
    /\ pc = "setup"
    /\ ~panicked
    /\ Len(event_registry) < MaxEntries
    /\ event_registry' = Append(event_registry,
                            [type |-> type, channel_id |-> channels, send |-> send_fn])
    /\ channels' = channels + 1
    /\ received_messages' = Append(received_messages, <<>>)
    /\ UNCHANGED <<events, client_events, client_status, sent_messages, server_running,
                   last_connected, delivered, dropped, handed, done, pc, marker_vars>>

\* App::add_client_event_with, with the default codec
add_client_event_with(type) ==
    /\ push_event(type, "send")
    /\ last' = [op |-> "add_client_event_with"]

\* App::add_client_event
add_client_event(type) == add_client_event_with(type)

\* App::add_mapped_client_event
add_mapped_client_event(type) ==
    /\ push_event(type, "map_and_send")
    /\ last' = [op |-> "add_mapped_client_event"]

EventRegistered(type) == \E i \in 1..Len(event_registry) : event_registry[i].type = type

\* The systems ClientEventPlugin::build adds to PreUpdate; the tuple is not
\* chained, so build itself puts no order between them.
PreUpdate == {"reset_system", "receive_system"}

\* The systems of PreUpdate that may run next when those in finished have run.
ready(finished) == PreUpdate \ finished

\* Variant: resend_locally_system is placed before send_system.
next_phase_resend_first(phase, finished) ==
    CASE phase = "event_update_system" -> ready(finished)
      [] phase \in PreUpdate ->
            IF PreUpdate \subseteq finished THEN {"resend_locally_system"}
            ELSE ready(finished)
      [] phase = "resend_locally_system" -> {"send_system"}
      [] phase = "send_system" -> {"transport"}
      [] phase = "transport" -> {"event_update_system"}

\* The schedules of a frame: First (event_update_system), PreUpdate (its
\* systems in either order), PostUpdate (ClientSet::Send:
\* send_system, resend_locally_system chained), then the transport. The
\* systems that may run after phase when those in finished have run.
next_phase(phase, finished) ==
    CASE phase = "event_update_system" -> ready(finished)
      [] phase \in PreUpdate ->
            IF PreUpdate \subseteq finished THEN {"send_system"}
            ELSE ready(finished)
      [] phase = "send_system" -> {"resend_locally_system"}
      [] phase = "resend_locally_system" -> {"transport"}
      [] phase = "transport" -> {"event_update_system"}

\* App::run: the app is built, the first frame starts.
Run ==
    /\ pc = "setup"
    /\ ~panicked
    /\ pc' = "event_update_system"
    /\ last' = [op |-> "run"]
    /\ UNCHANGED <<event_registry, channels, events, client_events, client_status,
                   sent_messages, server_running, received_messages, last_connected,
                   delivered, dropped, handed, done, marker_vars>>

(***************************************************************************)
(* Client events: the application, bevy and the transport                  *)
(***************************************************************************)
RECURSIVE sum_event_count(_)
sum_event_count(types) ==
    IF types = {} THEN 0
    ELSE LET t == CHOOSE t \in types : TRUE
         IN  events[t].event_count + sum_event_count(types \ {t})

\* EventWriter::send / Events::send of an event, in the Update schedule (after
\* PreUpdate, before PostUpdate).
send_event(type, event) ==
    /\ pc = "send_system"
    /\ ~panicked
    /\ EventRegistered(type)
    /\ sum_event_count(EventTypes) + delivered < MaxInputs
    /\ events' = [events EXCEPT ![type] =
                     [@ EXCEPT !.events_b = Append(@, [event_id |-> events[type].event_count,
                                                      event |-> event]),
                               !.event_count = @ + 1]]
    /\ last' = [op |-> "send_event"]
    /\ UNCHANGED <<event_registry, channels, client_events, client_status, sent_messages,
                   server_running, received_messages, last_connected, delivered,
                   dropped, handed, done, pc, marker_vars>>

\* event_update_system in First: when it is due, Events::update for every
\* event type added with add_event (the older buffer is dropped, the newer one
\* becomes the older one).
event_update_system(due) ==
    /\ pc = "event_update_system"
    /\ ~panicked
    /\ pc' \in next_phase(pc, done)
    /\ events' = IF due
                 THEN [t \in EventTypes |->
                         [events[t] EXCEPT !.events_a = events[t].events_b,
                                           !.events_b = <<>>]]
                 ELSE events
    /\ dropped' = recalled(dropped, events')
    /\ handed' = retained(handed, events')
    /\ last' = [op |-> "event_update_system"]
    /\ UNCHANGED <<event_registry, channels, client_events, client_status, sent_messages,
                   server_running, received_messages, last_connected, delivered,
                   done, marker_vars>>

\* The transport delivers a message of a client on a channel, between frames.
Deliver(channel_id, client_id, bytes) ==
    /\ pc = "transport"
    /\ ~panicked
    /\ server_running
    /\ channel_id < channels
    /\ sum_event_count(EventTypes) + delivered < MaxInputs
    /\ received_messages' =
          [received_messages EXCEPT ![channel_id + 1] = Append(@, <<client_id, bytes>>)]
    /\ delivered' = delivered + 1
    /\ last' = [op |-> "deliver"]
    /\ UNCHANGED <<event_registry, channels, events, client_events, client_status,
                   sent_messages, server_running, last_connected, dropped, handed, done,
                   pc, marker_vars>>

\* End of the frame: the transport takes the messages handed to it, the
\* application has read the received envelopes; the connection and the server
\* may change state before the next frame.
Transport(status, running) ==
    /\ pc = "transport"
    /\ ~panicked
    /\ pc' \in next_phase(pc, {})
    /\ sent_messages' = <<>>
    /\ client_events' = [t \in EventTypes |-> <<>>]
    /\ client_status' = status
    /\ server_running' = running
    /\ dropped' = IF client_status # "disconnected" /\ status = "disconnected"
                  THEN [t \in EventTypes |->
                           IF events_len(events[t]) > 0 THEN events[t].event_count
                           ELSE dropped[t]]
                  ELSE dropped
    /\ done' = {}
    /\ last' = [op |-> "transport"]
    /\ UNCHANGED <<event_registry, channels, events, received_messages,
                   last_connected, delivered, handed, marker_vars>>

(***************************************************************************)
(* Client events: the systems of ClientEventPlugin                         *)
(***************************************************************************)
\* common_conditions
client_connected == client_status = "connected"
has_authority == client_status = "disconnected"

\* The condition of ClientSet::ResetEvents: the client is disconnected now and
\* was not when the condition last looked.
just_disconnected == last_connected /\ client_status = "disconnected"

\* Variant: no run conditions.
run_always(system) == TRUE

\* The run condition ClientEventPlugin::build gives each system.
run_if(system) ==
    CASE system = "reset_system" -> just_disconnected
      [] system = "receive_system" -> server_running
      [] system = "send_system" -> client_connected
      [] system = "resend_locally_system" -> has_authority

\* reset_system in ClientSet::ResetEvents; the condition notes each frame
\* whether the client is disconnected.
reset_system ==
    /\ pc = "reset_system"
    /\ ~panicked
    /\ pc' \in next_phase(pc, done \cup {"reset_system"})
    /\ done' = done \cup {"reset_system"}
    /\ last_connected' = (client_status # "disconnected")
    /\ IF run_if("reset_system")
       THEN /\ Becomes(for_each_event("reset", World, event_registry, 0))
            /\ last' = [op |-> "reset_system", ran |-> TRUE,
                        n |-> queued_events(World, EventTypes)]
       ELSE /\ UNCHANGED <<events, client_events, sent_messages, received_messages,
                           panicked>>
            /\ last' = [op |-> "reset_system", ran |-> FALSE, n |-> 0]
    /\ dropped' = recalled(dropped, events')
    /\ handed' = retained(handed, events')
    /\ UNCHANGED <<event_registry, channels, client_status, server_running, delivered,
                   marker_tables>>

\* receive_system.run_if(server_running) in ServerSet::Receive
receive_system ==
    /\ pc = "receive_system"
    /\ ~panicked
    /\ pc' \in next_phase(pc, done \cup {"receive_system"})
    /\ done' = done \cup {"receive_system"}
    /\ IF run_if("receive_system")
       THEN /\ Becomes(for_each_event("receive", World, event_registry, 0))
            /\ last' = [op |-> "receive_system", ran |-> TRUE,
                        n |-> pending_messages(World, 0)]
       ELSE /\ UNCHANGED <<events, client_events, sent_messages, received_messages,
                           panicked>>
            /\ last' = [op |-> "receive_system", ran |-> FALSE, n |-> 0]
    /\ UNCHANGED <<event_registry, channels, client_status, server_running,
                   last_connected, delivered, dropped, handed, marker_tables>>

\* send_system.run_if(client_connected), first of the chain in ClientSet::Send
send_system ==
    /\ pc = "send_system"
    /\ ~panicked
    /\ pc' \in next_phase(pc, done \cup {"send_system"})
    /\ done' = done \cup {"send_system"}
    /\ IF run_if("send_system")
       THEN /\ Becomes(for_each_event("send", World, event_registry, 0))
            /\ handed' = retained([t \in EventTypes |->
                                       IF EventRegistered(t) THEN events[t].event_count
                                       ELSE handed[t]], events')
            /\ last' = [op |-> "send_system", ran |-> TRUE,
                        n |-> queued_events(World, EventTypes)]
       ELSE /\ UNCHANGED <<events, client_events, sent_messages, received_messages,
                           panicked, handed>>
            /\ last' = [op |-> "send_system", ran |-> FALSE, n |-> 0]
    /\ UNCHANGED <<event_registry, channels, client_status, server_running,
                   last_connected, delivered, dropped, marker_tables>>

\* resend_locally_system.run_if(has_authority), second of the chain
resend_locally_system ==
    /\ pc = "resend_locally_system"
    /\ ~panicked
    /\ pc' \in next_phase(pc, done \cup {"resend_locally_system"})
    /\ done' = done \cup {"resend_locally_system"}
    /\ IF run_if("resend_locally_system")
       THEN /\ Becomes(for_each_event("resend_locally", World, event_registry, 0))
            /\ last' = [op |-> "resend_locally_system", ran |-> TRUE,
                        n |-> queued_events(World, EventTypes)]
       ELSE /\ UNCHANGED <<events, client_events, sent_messages, received_messages,
                           panicked>>
            /\ last' = [op |-> "resend_locally_system", ran |-> FALSE, n |-> 0]
    /\ dropped' = recalled(dropped, events')
    /\ handed' = retained(handed, events')
    /\ UNCHANGED <<event_registry, channels, client_status, server_running,
                   last_connected, delivered, marker_tables>>

EventRegistration ==
    \/ \E t \in EventTypes : add_client_event_with(t)
    \/ \E t \in EventTypes : add_client_event(t)
    \/ \E t \in EventTypes : add_mapped_client_event(t)

\* The systems of one frame.
Frame ==
    \/ \E due \in BOOLEAN : event_update_system(due)
    \/ reset_system
    \/ receive_system
    \/ send_system
    \/ resend_locally_system

ClientStatuses == {"disconnected", "connecting", "connected"}

\* A client app: it is built, then runs frame after frame while the
\* application raises events and the connection changes state; its server
\* never runs.
EventsNext ==
    \/ EventRegistration
    \/ Run
    \/ Frame
    \/ \E status \in ClientStatuses : Transport(status, FALSE)
    \/ \E t \in EventTypes, index \in LocalEntities : send_event(t, Entity(index))

SpecEvents == Init /\ [][EventsNext]_vars

\* An app whose server may run: it is built, then runs frame after frame while
\* the transport delivers messages of clients; its own client may connect, too.
\* The application raises no events here, so the entries are registered with
\* add_client_event: an entry of add_mapped_client_event differs in send only.
ReceiveNext ==
    \/ \E t \in EventTypes : add_client_event(t)
    \/ Run
    \/ Frame
    \/ \E status \in ClientStatuses, running \in BOOLEAN : Transport(status, running)
    \/ \E channel_id \in 0..(MaxEntries - 1), client_id \in ClientIds, bytes \in InboundBytes :
           Deliver(channel_id, client_id, bytes)

SpecReceive == Init /\ [][ReceiveNext]_vars

\* As SpecEvents, with events among those raised that fail to serialize.
FailuresNext ==
    \/ EventRegistration
    \/ Run
    \/ Frame
    \/ \E status \in ClientStatuses : Transport(status, FALSE)
    \/ \E t \in EventTypes, event \in {Entity(1), Unserializable} : send_event(t, event)

SpecFailures == Init /\ [][FailuresNext]_vars

\* A listen server: the server runs from the end of the first frame on, the
\* application raises events of its own and the transport delivers messages of
\* a client.
ListenServerNext ==
    \/ EventRegistration
    \/ Run
    \/ Frame
    \/ \E status \in ClientStatuses : Transport(status, TRUE)
    \/ \E t \in EventTypes : send_event(t, Entity(1))
    \/ \E channel_id \in 0..(MaxEntries - 1) :
           Deliver(channel_id, "client1", default_serialize(Entity(11)).bytes)

SpecListenServer == Init /\ [][ListenServerNext]_vars

(***************************************************************************)
(* Client events: an event on its way from a client to the server          *)
(***************************************************************************)
\* u32 values with the same number in each of the four bytes.
Words == {i * 16843009 : i \in 0..MaxWord}

\* The valid entities: any index, a generation that is not zero.
Entities == [index : Words, generation : Words \ {0}]

\* The event a client raises for each event type: index and generation differ
\* in every byte for the first, the index is zero for the second.
Payloads ==
    [t \in EventTypes |->
        IF t = "E1" THEN [index |-> 2 * 16843009, generation |-> 5 * 16843009]
        ELSE [index |-> 0, generation |-> 16843009]]

\* default_serialize of an event and default_deserialize of the bytes, called
\* while the app is set up.
Serialize(event) ==
    /\ pc = "setup"
    /\ ~panicked
    /\ LET result == default_serialize(event)
       IN  last' = [op |-> "default_serialize", event |-> event, result |-> result,
                    decoded |-> IF result.ok THEN default_deserialize(result.bytes)
                                ELSE [ok |-> FALSE]]
    /\ UNCHANGED <<marker_vars, event_vars>>

\* The messages handed to the transport for a channel, as the server gets them
\* from this client.
RECURSIVE relayed(_, _, _)
relayed(messages, channel_id, client_id) ==
    IF messages = <<>> THEN <<>>
    ELSE (IF Head(messages)[1] = channel_id
          THEN <<<<client_id, Head(messages)[2]>>>>
          ELSE <<>>) \o relayed(Tail(messages), channel_id, client_id)

\* End of the frame as in Transport, with a transport that delivers every
\* message the client handed to it, unchanged, to the server, which runs. The
\* state stands for the client side of the client's app and the server side of
\* the server's app, both built by the same registration calls; the two apps
\* run their frames in step.
Relay(status, client_id) ==
    /\ pc = "transport"
    /\ ~panicked
    /\ pc' \in next_phase(pc, {})
    /\ received_messages' =
          [c \in 1..Len(received_messages) |->
              received_messages[c] \o relayed(sent_messages, c - 1, client_id)]
    /\ sent_messages' = <<>>
    /\ client_events' = [t \in EventTypes |-> <<>>]
    /\ client_status' = status
    /\ server_running' = TRUE
    /\ dropped' = IF client_status # "disconnected" /\ status = "disconnected"
                  THEN [t \in EventTypes |->
                           IF events_len(events[t]) > 0 THEN events[t].event_count
                           ELSE dropped[t]]
                  ELSE dropped
    /\ done' = {}
    /\ last' = [op |-> "relay"]
    /\ UNCHANGED <<event_registry, channels, events, last_connected, delivered, handed,
                   marker_vars>>

\* The default codec on its own, and a client whose events travel to the
\* server: the apps call add_client_event, the client raises the payload of
\* each event type.
CodecNext ==
    \/ \E event \in Entities : Serialize(event)
    \/ \E t \in EventTypes : add_client_event(t)
    \/ Run
    \/ Frame
    \/ \E status \in ClientStatuses, client_id \in ClientIds : Relay(status, client_id)
    \/ \E t \in EventTypes : send_event(t, Payloads[t])

SpecCodec == Init /\ [][CodecNext]_vars

(***************************************************************************)
(* Properties of the marker registry and of resolution                     *)
(***************************************************************************)
MarkerRegistered(m) == \E i \in 1..Len(command_markers) : command_markers[i].component_id = m

\* Entries carried by the entity for which an override for c was installed.
PresentWithOverride(c, entity) ==
    {i \in 1..Len(command_markers) :
        /\ command_markers[i].component_id \in entity
        /\ overrides[insert_order[i]][c] # None}

\* Those of them with the highest priority.
HighestPriority(c, entity) ==
    {i \in PresentWithOverride(c, entity) :
        \A j \in PresentWithOverride(c, entity) :
            command_markers[i].priority >= command_markers[j].priority}

ExpectedFns(c, entity) ==
    IF PresentWithOverride(c, entity) # {}
    THEN {overrides[insert_order[i]][c] : i \in HighestPriority(c, entity)}
    ELSE IF replication_fns[c].default # None THEN {replication_fns[c].default}
    ELSE {default_fns}

\* C1: for every component and every entity, resolve on the entity's snapshot
\* yields the pair installed for a highest-priority marker that the entity
\* carries and that overrides the component; without such a marker the pair of
\* set_command_fns; without that default_write / default_remove.
ResolveHighestPriority ==
    \A c \in Components, entity \in SUBSET MarkerIds :
        resolve(replication_fns[c], read(command_markers, entity)) \in ExpectedFns(c, entity)

\* An entity carrying two markers of different priority that both override X
\* was read, and resolution gives the pair of the higher one.
ResolveHighestPriorityWitness ==
    /\ last.op = "read"
    /\ \E i, j \in 1..Len(command_markers) :
        /\ command_markers[i].priority > command_markers[j].priority
        /\ command_markers[i].component_id # command_markers[j].component_id
        /\ {command_markers[i].component_id, command_markers[j].component_id} \subseteq last.entity
        /\ overrides[insert_order[i]]["X"] # None
        /\ overrides[insert_order[j]]["X"] # None
        /\ resolve(replication_fns["X"], entity_markers) = overrides[insert_order[i]]["X"]

\* C2: the registry is sorted by non-increasing priority and holds exactly the
\* inserted markers, one entry per insert call.
RegistrySorted ==
    /\ \A i, j \in 1..Len(command_markers) :
          i < j => command_markers[i].priority >= command_markers[j].priority
    /\ Len(command_markers) = Len(inserted)
    /\ {insert_order[i] : i \in 1..Len(insert_order)} = 1..Len(inserted)
    /\ \A i \in 1..Len(command_markers) : command_markers[i] = inserted[insert_order[i]]

\* A marker inserted after one of lower priority stands before it.
RegistrySortedWitness ==
    /\ last.op = "register_marker_with"
    /\ Len(inserted) >= 2
    /\ inserted[1].priority < inserted[2].priority
    /\ insert_order[1] = 2

\* C3: among markers of equal priority the one inserted earlier has the lower index.
EqualPriorityKeepsInsertionOrder ==
    \A i, j \in 1..Len(command_markers) :
        (i < j /\ command_markers[i].priority = command_markers[j].priority)
            => insert_order[i] < insert_order[j]

\* C6: set_marker_fns for a marker that was never registered panics in that
\* call and installs no override, whatever the registry holds.
UnregisteredMarkerPanics ==
    [][(last'.op = "set_marker_fns" /\ ~panicked /\ ~MarkerRegistered(last'.marker))
          => (panicked' /\ replication_fns' = replication_fns)]_vars

\* The panic happened with other markers in the registry.
UnregisteredMarkerPanicsWitness ==
    /\ panicked
    /\ last.op = "set_marker_fns"
    /\ ~MarkerRegistered(last.marker)
    /\ Len(command_markers) > 0
    /\ \A c \in Components, i \in 1..Len(command_markers) :
          replication_fns[c].markers[i] = None

(***************************************************************************)
(* Properties of update processing                                         *)
(***************************************************************************)
\* The marker resolved for (entity, c) tolerates out-of-order updates.
HistoryTolerant(c, entity) ==
    /\ HighestPriority(c, entity) # {}
    /\ \A i \in HighestPriority(c, entity) : command_markers[i].need_history

\* No marker is resolved for (entity, c), or one that does not tolerate them.
NotHistoryTolerant(c, entity) ==
    \A i \in HighestPriority(c, entity) : ~command_markers[i].need_history

\* C4: for a pair that is not history-tolerant an update older than the last
\* applied one is not passed to the write function, so what is written always
\* carries the newest tick; for a history-tolerant pair, that is a pair whose
\* resolved marker was registered with need_history = true, every update is
\* passed whatever the order of arrival.
OldUpdateNeedsHistory ==
    last.op = "update" =>
        /\ (NotHistoryTolerant(last.component, last.entity) /\ last.old) => ~last.passed
        /\ (NotHistoryTolerant(last.component, last.entity) /\ last.passed)
              => last.tick = last_tick[last.component]
        /\ HistoryTolerant(last.component, last.entity) => last.passed

\* An update older than the last applied one was passed to the override of the
\* resolved history marker.
OldUpdateNeedsHistoryWitness ==
    /\ last.op = "update"
    /\ HistoryTolerant(last.component, last.entity)
    /\ last.tick < last_tick[last.component]
    /\ last.old
    /\ last.passed
    /\ last.write # default_fns

\* The entity carries a marker registered with need_history = true.
PresentHistoryMarker(entity) ==
    \E i \in 1..Len(command_markers) :
        command_markers[i].component_id \in entity /\ command_markers[i].need_history

\* C4 as stated, a pair being history-tolerant when a present marker was
\* registered with need_history = true: without such a marker an old update is
\* not passed and what is written carries the newest tick; with one every
\* update is passed.
OldUpdatePresentHistory ==
    last.op = "update" =>
        /\ (~PresentHistoryMarker(last.entity) /\ last.old) => ~last.passed
        /\ (~PresentHistoryMarker(last.entity) /\ last.passed)
              => last.tick = last_tick[last.component]
        /\ PresentHistoryMarker(last.entity) => last.passed

\* The entity carries a history marker, yet the marker resolved for c is not one.
ResolvedNonHistoryAmongHistory(c, entity) ==
    /\ \E i \in 1..Len(command_markers) :
          command_markers[i].component_id \in entity /\ command_markers[i].need_history
    /\ HighestPriority(c, entity) # {}
    /\ \A i \in HighestPriority(c, entity) : ~command_markers[i].need_history

\* C5: the resolved marker decides: an old update is dropped when the resolved
\* marker has need_history = false although another present marker has it.
ResolvedMarkerDecidesStaleness ==
    (/\ last.op = "update"
     /\ last.old
     /\ ResolvedNonHistoryAmongHistory(last.component, last.entity))
        => ~last.passed

\* Such an update arrived and was dropped.
ResolvedMarkerDecidesStalenessWitness ==
    /\ last.op = "update"
    /\ last.old
    /\ ResolvedNonHistoryAmongHistory(last.component, last.entity)
    /\ ~last.passed
    /\ last.write # default_fns

(***************************************************************************)
(* Properties of the client events                                         *)
(***************************************************************************)
SendRan == last.op = "send_system" /\ last.ran

\* C7: after send ran, the local queue of every registered event type is
\* empty, so that a later send without new events hands nothing to the
\* transport.
SendLeavesQueueEmpty ==
    SendRan => \A t \in EventTypes : EventRegistered(t) => events_len(events[t]) = 0

\* The envelopes of the messages that deserialize, in arrival order.
Deserializable(message) == default_deserialize(message[2]).ok
EnvelopesOf(messages) ==
    LET good == SelectSeq(messages, Deserializable)
    IN  [i \in 1..Len(good) |->
            [client_id |-> good[i][1], event |-> default_deserialize(good[i][2]).event]]

\* The envelopes expected for a type: those of the channel of each of its
\* entries, from the entry at index on.
RECURSIVE ExpectedEnvelopes(_, _)
ExpectedEnvelopes(type, index) ==
    IF index > Len(event_registry) THEN <<>>
    ELSE (IF event_registry[index].type = type
          THEN EnvelopesOf(received_messages[event_registry[index].channel_id + 1])
          ELSE <<>>) \o ExpectedEnvelopes(type, index + 1)

\* C8: receive pulls every pending message of the channel of each entry and
\* emits, in arrival order, one FromClient envelope with the sender and the
\* deserialized event per message that deserializes; a malformed message is
\* dropped and the messages after it are still processed.
ReceiveEmitsPerMessage ==
    [][(last'.op = "receive_system" /\ last'.ran)
          => /\ \A t \in EventTypes :
                   client_events'[t] = client_events[t] \o ExpectedEnvelopes(t, 1)
             /\ \A i \in 1..Len(received_messages') : received_messages'[i] = <<>>]_vars

\* Two messages were pending, one of them malformed: one envelope came out.
ReceiveEmitsPerMessageWitness ==
    /\ last.op = "receive_system"
    /\ last.ran
    /\ last.n = 2
    /\ Len(event_registry) = 1
    /\ \E t \in EventTypes :
          /\ Len(client_events[t]) = 1
          /\ client_events[t][1].client_id \in ClientIds
          /\ client_events[t][1].event = Entity(11)

\* The envelopes resend_locally makes of a local queue.
LocalEnvelopes(queue) ==
    [i \in 1..events_len(queue) |->
        [client_id |-> SERVER, event |-> (queue.events_a \o queue.events_b)[i].event]]

\* C9: resend_locally turns the local queue e1..en of a registered type into
\* the envelopes FromClient{SERVER, e1}..FromClient{SERVER, en}, in this order,
\* and leaves the queue empty; for an empty queue it emits nothing.
ResendLocallyDrains ==
    [][(last'.op = "resend_locally_system" /\ last'.ran)
          => \A t \in EventTypes :
                IF EventRegistered(t)
                THEN /\ client_events'[t] = client_events[t] \o LocalEnvelopes(events[t])
                     /\ events_len(events'[t]) = 0
                     /\ (events_len(events[t]) = 0 => client_events'[t] = client_events[t])
                ELSE client_events'[t] = client_events[t]]_vars

\* Two different events of one type were resent, in the order they were raised.
ResendLocallyDrainsWitness ==
    /\ last.op = "resend_locally_system"
    /\ last.ran
    /\ last.n = 2
    /\ \E t \in EventTypes :
          /\ Len(client_events[t]) = 2
          /\ client_events[t][1].client_id = SERVER
          /\ client_events[t][2].client_id = SERVER
          /\ client_events[t][1].event # client_events[t][2].event
          /\ events_len(events[t]) = 0

\* C10: when the reset phase ran, the local queue of every registered event
\* type is empty, and no event was handed to the transport or to the received
\* events of the server.
ResetDiscards ==
    [][(last'.op = "reset_system" /\ last'.ran)
          => /\ \A t \in EventTypes : EventRegistered(t) => events_len(events'[t]) = 0
             /\ sent_messages' = sent_messages
             /\ client_events' = client_events]_vars

\* The reset phase ran with events in the queue and left none.
ResetDiscardsWitness ==
    /\ last.op = "reset_system"
    /\ last.ran
    /\ last.n >= 1
    /\ \A t \in EventTypes : events_len(events[t]) = 0
    /\ sent_messages = <<>>

\* C11: when reset ran and receive runs right after it in the same tick, the
\* receive emits no FromClient envelope of any registered event type.
ResetThenReceiveEmitsNothing ==
    [][(/\ last.op = "reset_system" /\ last.ran
        /\ last'.op = "receive_system" /\ last'.ran)
          => \A t \in EventTypes :
                EventRegistered(t) => client_events'[t] = client_events[t]]_vars

\* The queued events of a type, oldest first.
Queued(t) == events[t].events_a \o events[t].events_b

\* C12: an event that was queued when the client became disconnected is in no
\* queue a later send hands to the transport: every event a send finds queued
\* was raised after the last disconnect.
StaleEventsNeverSent ==
    [][(last'.op = "send_system" /\ last'.ran)
          => \A t \in EventTypes :
                EventRegistered(t) =>
                    \A i \in 1..Len(Queued(t)) : Queued(t)[i].event_id >= dropped[t]]_vars

\* The client was disconnected with an event queued and connected again; a
\* send then handed over an event raised after the disconnect.
StaleEventsNeverSentWitness ==
    /\ last.op = "send_system"
    /\ last.ran
    /\ last.n >= 1
    /\ \E t \in EventTypes :
          /\ EventRegistered(t)
          /\ dropped[t] >= 1
          /\ Len(Queued(t)) >= 1
          /\ Len(sent_messages) >= 1

\* The phases of a tick in the order of the claim.
Phases == <<"reset_system", "receive_system", "send_system", "resend_locally_system">>

SerializeFailureIsolated ==
    [][(last'.op = "send_system" /\ last'.ran)
          => \A e \in 1..Len(event_registry) :
                LET queued == Queued(event_registry[e].type)
                    on_channel == {m \in 1..Len(sent_messages') :
                                      sent_messages'[m][1] = event_registry[e].channel_id}
                IN  (\A i \in 1..Len(queued) : "index" \in DOMAIN queued[i].event)
                        => Cardinality(on_channel) = Len(queued)]_vars

\* C15: no event is both handed to the transport by send and turned into a
\* local envelope by resend_locally, and none is turned into two envelopes:
\* the events resend_locally finds queued were raised after the last send that
\* could have handed them over, and it leaves none of them queued.
NeverDoubleCounted ==
    [][(last'.op = "resend_locally_system" /\ last'.ran)
          => \A t \in EventTypes :
                EventRegistered(t) =>
                    /\ \A i \in 1..Len(Queued(t)) : Queued(t)[i].event_id >= handed[t]
                    /\ Len(client_events'[t]) = Len(client_events[t]) + Len(Queued(t))
                    /\ events_len(events'[t]) = 0]_vars

\* After a disconnect with events queued, an event raised later was resent
\* locally.
NeverDoubleCountedWitness ==
    /\ last.op = "resend_locally_system"
    /\ last.ran
    /\ last.n >= 1
    /\ \E t \in EventTypes :
          /\ EventRegistered(t)
          /\ dropped[t] >= 1
          /\ Len(client_events[t]) >= 1

\* The connection-lifecycle condition of each phase.
PhaseCondition(phase) ==
    CASE phase = "reset_system" -> last_connected /\ client_status = "disconnected"
      [] phase = "receive_system" -> server_running
      [] phase = "send_system" -> client_status = "connected"
      [] phase = "resend_locally_system" -> client_status = "disconnected"

RECURSIVE ExpectedMessages(_)
ExpectedMessages(index) ==
    IF index > Len(event_registry) THEN <<>>
    ELSE LET entry == event_registry[index]
             queued == Queued(entry.type)
         IN  [i \in 1..Len(queued) |->
                 <<entry.channel_id,
                   default_serialize(
                       IF entry.send = "map_and_send"
                       THEN [index |-> to_server[queued[i].event.index],
                             generation |-> queued[i].event.generation]
                       ELSE queued[i].event).bytes>>]
             \o ExpectedMessages(index + 1)

\* C17: send hands over, for an entry registered with add_mapped_client_event,
\* each queued event with its entity replaced by the image under the
\* client-to-server mapping, and for an entry registered with add_client_event
\* or add_client_event_with each queued event unchanged; the events stored in
\* the local queue keep their client entities.
MappedBeforeSend ==
    [][(last'.op = "send_system" /\ last'.ran)
          => /\ sent_messages' = sent_messages \o ExpectedMessages(1)
             /\ events' = events]_vars

\* An event naming client entity 2 went out with server entity 12 for a mapped
\* entry and stays queued with entity 2.
MappedBeforeSendWitness ==
    /\ last.op = "send_system"
    /\ last.ran
    /\ \E e \in 1..Len(event_registry) :
          /\ event_registry[e].send = "map_and_send"
          /\ Len(Queued(event_registry[e].type)) >= 1
          /\ Queued(event_registry[e].type)[1].event = Entity(2)
          /\ \E m \in 1..Len(sent_messages) :
                sent_messages[m] = <<event_registry[e].channel_id,
                                     <<253, 12, 0, 0, 0, 1, 0, 0, 0>>>>

\* Number of messages pending on the channels of the entries of a type.
RECURSIVE pending_for(_, _)
pending_for(type, index) ==
    IF index >= Len(event_registry) THEN 0
    ELSE (IF event_registry[index + 1].type = type
          THEN Len(received_messages[index + 1]) ELSE 0) + pending_for(type, index + 1)

FromClients(type) ==
    {i \in 1..Len(client_events[type]) : client_events[type][i].client_id # SERVER}

\* Every envelope that came from a client holds the event the client raised.
EnvelopesHoldPayload ==
    \A t \in EventTypes :
        \A i \in FromClients(t) :
            /\ client_events[t][i].client_id \in ClientIds
            /\ client_events[t][i].event = Payloads[t]

\* receive emits one envelope for every message that is pending for the type.
EveryMessageEmitted ==
    (last'.op = "receive_system" /\ last'.ran)
        => \A t \in EventTypes :
              Len(client_events'[t]) = Len(client_events[t]) + pending_for(t, 0)

\* C18: default_serialize of a valid event succeeds, default_deserialize of
\* the bytes succeeds and yields the event; so the event a connected client
\* sends is emitted by receive, when the transport delivers the message
\* unchanged, as a FromClient envelope that holds this event.
CodecRoundTrip ==
    /\ [](last.op = "default_serialize"
            => /\ last.result.ok
               /\ last.decoded = [ok |-> TRUE, event |-> last.event])
    /\ []EnvelopesHoldPayload
    /\ [][EveryMessageEmitted]_vars

\* The codec was tried on an event whose index and generation differ in every
\* byte, and the server's receive emitted the events a client raised for two
\* event types.
CodecRoundTripWitness ==
    /\ last.op = "receive_system"
    /\ last.ran
    /\ Len(event_registry) = 2
    /\ \A t \in EventTypes :
          /\ client_events[t] # <<>>
          /\ client_events[t][1].event = Payloads[t]
          /\ client_events[t][1].client_id \in ClientIds

\* C19: after EntityMarkers::read, markers() has one slot per marker of the
\* registry as it is now, in registry order, slot i telling whether the entity
\* just read carries the i-th marker; the read leaves the registry as it was.
SnapshotMatchesEntity ==
    [][last'.op = "read"
          => /\ Len(entity_markers'.markers) = Len(command_markers)
             /\ \A i \in 1..Len(command_markers) :
                   entity_markers'.markers[i]
                       <=> command_markers[i].component_id \in last'.entity
             /\ command_markers' = command_markers
             /\ replication_fns' = replication_fns]_vars

\* An entity carrying only the second marker of the registry was read; both
\* markers were registered after the snapshot was made.
SnapshotMatchesEntityWitness ==
    /\ last.op = "read"
    /\ Len(command_markers) = 2
    /\ command_markers[1].component_id # command_markers[2].component_id
    /\ last.entity = {command_markers[2].component_id}
    /\ entity_markers.markers = <<FALSE, TRUE>>

\* C20: after EntityMarkers::read, need_history() holds exactly if a marker
\* the entity just read carries was registered with need_history = true; a
\* history marker of the registry that the entity lacks does not count.
NeedHistoryOfPresentMarkers ==
    last.op = "read"
        => (entity_markers.need_history
               <=> \E k \in 1..Len(inserted) :
                      inserted[k].component_id \in last.entity /\ inserted[k].need_history)

\* An entity without the registered history marker was read: need_history is false.
NeedHistoryOfPresentMarkersWitness ==
    /\ last.op = "read"
    /\ \E i \in 1..Len(command_markers) :
          /\ command_markers[i].need_history
          /\ command_markers[i].component_id \notin last.entity
    /\ last.entity # {}
    /\ ~entity_markers.need_history

(***************************************************************************)
(* Properties of indices into the marker registry                          *)
(***************************************************************************)
\* C21: the index returned by CommandMarkers::insert is the position of the new
\* marker right after the insertion; after any further insertions marker_id of
\* every registered marker is a current position that holds this marker; and
\* every override that set_marker_fns<M, C> installed sits in a slot of M, never
\* in the slot of another marker.
IndicesResolvedByIdentity ==
    /\ last.op = "register_marker_with" =>
          /\ last.index \in 0..(Len(command_markers) - 1)
          /\ insert_order[last.index + 1] = Len(inserted)
          /\ command_markers[last.index + 1] = inserted[Len(inserted)]
    /\ \A m \in MarkerIds :
          MarkerRegistered(m) =>
              LET id == marker_id(command_markers, m)
              IN  /\ id \in 0..(Len(command_markers) - 1)
                  /\ command_markers[id + 1].component_id = m
    /\ \A c \in Components :
          /\ Len(replication_fns[c].markers) = Len(command_markers)
          /\ \A i \in 1..Len(command_markers) :
                replication_fns[c].markers[i] \in
                    {None, MarkerFns(command_markers[i].component_id, c)}

\* set_marker_fns ran for a marker that a later insertion had shifted from
\* position 0 to position 1, and its override is in slot 1 only.
IndicesResolvedByIdentityWitness ==
    /\ last.op = "set_marker_fns"
    /\ ~panicked
    /\ Len(command_markers) = 2
    /\ insert_order = <<2, 1>>
    /\ command_markers[1].component_id # command_markers[2].component_id
    /\ last.marker = command_markers[2].component_id
    /\ replication_fns[last.component].markers =
          <<None, MarkerFns(last.marker, last.component)>>

(***************************************************************************)
(* Properties of the event registry                                        *)
(***************************************************************************)
\* No event type has more than one entry.
OneEntryPerType ==
    \A i, j \in 1..Len(event_registry) :
        event_registry[i].type = event_registry[j].type => i = j

\* Entries stand in registration order, each with the channel identifier that
\* was allocated when it was pushed.
ChannelsInRegistrationOrder ==
    /\ Len(event_registry) = channels
    /\ \A i \in 1..Len(event_registry) : event_registry[i].channel_id = i - 1

\* A tick phase leaves the registry as it is.
PhaseKeepsRegistry ==
    last'.op \in {"reset_system", "receive_system", "send_system", "resend_locally_system"}
        => event_registry' = event_registry

\* C22: the event registry holds exactly one entry per registered event type,
\* in registration order, each with its own channel identifier allocated at
\* registration; after any sequence of add_client_event, add_mapped_client_event
\* and add_client_event_with calls no event type has more than one entry, and no
\* tick phase adds, removes or reorders entries or changes a channel identifier.
OneEntryPerEventType ==
    /\ []OneEntryPerType
    /\ []ChannelsInRegistrationOrder
    /\ [][PhaseKeepsRegistry]_vars

\* The parts of C22 that do not depend on a type being registered once.
RegistryOrderAndStability ==
    /\ []ChannelsInRegistrationOrder
    /\ [][PhaseKeepsRegistry]_vars

(***************************************************************************)
(* Properties of the operations of one entry                               *)
(***************************************************************************)
StartsWith(s, prefix) ==
    Len(prefix) <= Len(s) /\ SubSeq(s, 1, Len(prefix)) = prefix

\* C23: send, receive, resend_locally or reset for an entry of event type T
\* leaves the local queue and the received envelopes of every other event type
\* unchanged, hands bytes to no channel but the entry's own and takes bytes
\* from no other; receive and send remove nothing from the received envelopes
\* of T, and reset leaves them unchanged.
PerTypeIsolation ==
    \A index \in 1..Len(event_registry),
       system \in {"send", "receive", "resend_locally", "reset"} :
        LET entry == event_registry[index]
            after == call(system, World, entry)
        IN  /\ \A t \in EventTypes \ {entry.type} :
                  /\ after.events[t] = events[t]
                  /\ after.client_events[t] = client_events[t]
            /\ StartsWith(after.sent_messages, sent_messages)
            /\ \A i \in (Len(sent_messages) + 1)..Len(after.sent_messages) :
                  after.sent_messages[i][1] = entry.channel_id
            /\ Len(after.received_messages) = Len(received_messages)
            /\ \A c \in 1..Len(received_messages) :
                  c # entry.channel_id + 1 =>
                      after.received_messages[c] = received_messages[c]
            /\ system \in {"send", "receive"} =>
                  StartsWith(after.client_events[entry.type], client_events[entry.type])
            /\ system = "reset" =>
                  after.client_events[entry.type] = client_events[entry.type]

\* send_system ran with two event types registered: an event of the first
\* was handed to its channel while an envelope of the second, received in this
\* frame, is still in its queue.
PerTypeIsolationWitness ==
    /\ last.op = "send_system"
    /\ last.ran
    /\ Len(event_registry) = 2
    /\ event_registry[1].type # event_registry[2].type
    /\ events_len(events[event_registry[1].type]) > 0
    /\ events_len(events[event_registry[2].type]) = 0
    /\ client_events[event_registry[1].type] = <<>>
    /\ client_events[event_registry[2].type] # <<>>
    /\ sent_messages # <<>>
    /\ \A i \in 1..Len(sent_messages) : sent_messages[i][1] = event_registry[1].channel_id
====
